---- MODULE Spec2Model ----
(***************************************************************************)
(* A model of app.py: the blog API with its post store, id counter,       *)
(* sliding-window rate limiter, admin gate and atomic-replace persistence. *)
(* Each request handler is a sequence of steps of one worker thread; the  *)
(* sequential specification runs one request at a time, the concurrent    *)
(* one interleaves the steps of several workers.                          *)
(***************************************************************************)
EXTENDS Integers, Sequences, FiniteSets, TLC

\* ----------------------------------------------------------------- bounds
\* Posts created over the lifetime of one store (caps next_id).
MaxPosts == 3
\* Clock ticks of one behaviour.
MaxTicks == 1
\* Submissions beyond RATE_LIMIT_COUNT in the rate limiter's specification.
MaxExtra == 1
\* Clock ticks of one behaviour of the rate limiter's specification.
MaxRateTicks == 3
\* Process restarts / crashes of one behaviour.
MaxRestarts == 1
\* Failed writes (OSError inside save_posts) of one behaviour.
MaxFailures == 1
\* Successful deletions of one behaviour.
MaxDeletes == 1
\* Worker threads of the concurrent specification.
NThreads == 2
\* Posts created in one behaviour of the screening specification.
MaxScreenPosts == 2
\* Posts created in one behaviour of the start-up specification.
MaxLoadPosts == 1

\* -------------------------------------------------------- program constants
RATE_LIMIT_COUNT == 5
RATE_LIMIT_WINDOW == 3600
MAX_TITLE_LEN == 200
MAX_NAME_LEN == 100
MAX_CONTENT_LEN == 5000

\* The clock advances in half windows, so that a timestamp can be younger
\* than, exactly as old as, and older than one window.
TickSeconds == RATE_LIMIT_WINDOW \div 2

\* ------------------------------------------------------------------ strings
\* Text is a sequence of characters.
Whitespace == {" ", "\t", "\n"}

RECURSIVE LStrip(_)
LStrip(s) == IF s # <<>> /\ Head(s) \in Whitespace THEN LStrip(Tail(s)) ELSE s

RECURSIVE RStrip(_)
RStrip(s) ==
    IF s # <<>> /\ s[Len(s)] \in Whitespace
    THEN RStrip(SubSeq(s, 1, Len(s) - 1))
    ELSE s

\* str.strip()
sanitize_text(s) == RStrip(LStrip(s))

\* str.lower() on the letters the model uses.
LowerChar(c) ==
    CASE c = "S" -> "s" [] c = "C" -> "c" [] c = "R" -> "r" [] c = "I" -> "i"
      [] c = "P" -> "p" [] c = "T" -> "t" [] c = "J" -> "j" [] c = "A" -> "a"
      [] c = "V" -> "v" [] c = "H" -> "h" [] c = "W" -> "w"
      [] OTHER -> c

Lower(s) == [i \in 1..Len(s) |-> LowerChar(s[i])]

\* needle in hay
Contains(hay, needle) ==
    \E i \in 1..(Len(hay) - Len(needle) + 1) :
        SubSeq(hay, i, i + Len(needle) - 1) = needle

ScriptMarker == <<"<", "s", "c", "r", "i", "p", "t">>
JavascriptMarker == <<"j", "a", "v", "a", "s", "c", "r", "i", "p", "t", ":">>

is_spam(title, name, content) ==
    IF Len(title) > MAX_TITLE_LEN \/ Len(name) > MAX_NAME_LEN
          \/ Len(content) > MAX_CONTENT_LEN
    THEN TRUE
    ELSE LET lowered == Lower(title \o <<" ">> \o content)
         IN  Contains(lowered, ScriptMarker) \/ Contains(lowered, JavascriptMarker)

Anonymous == <<"A", "n", "o", "n", "y", "m", "o", "u", "s">>

\* ------------------------------------------------------------ request inputs
\* An optional value: a header or a JSON field that may be absent.
None == [present |-> FALSE, val |-> <<>>]
Some(v) == [present |-> TRUE, val |-> v]
\* dict.get(key, default) / headers.get(key, default)
Get(opt, default) == IF opt.present THEN opt.val ELSE default

\* JSON bodies of POST /api/posts.
Bodies ==
    { [title |-> Some(<<" ", "H", "i">>), name |-> None, content |-> Some(<<"y", "o", " ">>)],
      [title |-> Some(<<" ">>), name |-> Some(<<"B">>), content |-> Some(<<"x">>)],
      [title |-> Some(<<"a">>), name |-> Some(<<"B">>), content |-> Some(<<"<", "S", "c", "r", "i", "p", "t">>)] }

\* n copies of the character c.
Repeat(c, n) == [i \in 1..n |-> c]

\* Bodies that exercise every branch of lines 89-98: a missing field, fields of
\* whitespace only, each length limit reached and exceeded, and the markers in
\* either field, in mixed case, and split between the title and the content.
ScreenBodies ==
    Bodies \cup
    { [title |-> None, name |-> None, content |-> Some(<<"x">>)],
      [title |-> Some(<<"a">>), name |-> None, content |-> Some(<<"\t", " ", "\n">>)],
      [title |-> Some(Repeat("a", MAX_TITLE_LEN)), name |-> None, content |-> Some(<<"x">>)],
      [title |-> Some(Repeat("a", MAX_TITLE_LEN + 1)), name |-> None, content |-> Some(<<"x">>)],
      [title |-> Some(<<"a">>), name |-> Some(Repeat("b", MAX_NAME_LEN + 1)), content |-> Some(<<"x">>)],
      [title |-> Some(<<"a">>), name |-> None, content |-> Some(Repeat("c", MAX_CONTENT_LEN + 1))],
      [title |-> Some(<<"J", "a", "V", "a", "s", "c", "r", "i", "p", "t", ":">>), name |-> None,
       content |-> Some(<<"x">>)],
      [title |-> Some(<<"<", "s", "c", "r">>), name |-> None, content |-> Some(<<"i", "p", "t">>)],
      [title |-> Some(<<"J", "A", "V", "A">>), name |-> None,
       content |-> Some(<<"s", "c", "r", "i", "p", "t", ":">>)] }

\* Where a request comes from: the X-Forwarded-For header and the peer address.
Origins ==
    { [xff |-> [present |-> TRUE, val |-> "10.0.0.1"], remote |-> "192.0.2.7"],
      [xff |-> [present |-> FALSE, val |-> ""], remote |-> ""] }

\* request.headers.get("X-Forwarded-For", request.remote_addr) or "unknown"
ClientIp(origin) ==
    LET v == IF origin.xff.present THEN origin.xff.val ELSE origin.remote
    IN  IF v = "" THEN "unknown" ELSE v

DefaultAdminKey == "CHANGE_THIS_KEY"
\* Values of the ADMIN_KEY environment variable (unset: the default).
AdminKeyEnv == {[present |-> FALSE, val |-> ""], [present |-> TRUE, val |-> ""]}
\* Values of the X-Admin-Key header.
KeyHeaders ==
    { [present |-> FALSE, val |-> ""], [present |-> TRUE, val |-> ""],
      [present |-> TRUE, val |-> "CHANGE_THIS_KEY"], [present |-> TRUE, val |-> "guess"] }

\* ----------------------------------------------------------------- the file
\* A file is absent or holds a sequence of tokens; the JSON document of a
\* collection is "[", one object per post, "]".
Absent == [exists |-> FALSE, data |-> <<>>]
File(data) == [exists |-> TRUE, data |-> data]

\* datetime.utcnow().isoformat() + "Z"
IsoZ(t) == <<t, "Z">>

EncodePost(p) == <<"{", p.id, p.title, p.name, p.content, p.created_at, "}">>
\* The title and the content read back from each other's place.
DecodePostSwapped(o) ==
    [id |-> o[2], title |-> o[5], name |-> o[4], content |-> o[3], created_at |-> o[6]]

DecodePost(o) ==
    [id |-> o[2], title |-> o[3], name |-> o[4], content |-> o[5], created_at |-> o[6]]

IsObject(o) == Len(o) = 7 /\ o[1] = "{" /\ o[7] = "}"

\* json.dump(posts, f, indent=2): the tokens written, in order.
JsonDump(ps) ==
    <<<<"[">>>> \o [i \in 1..Len(ps) |-> EncodePost(ps[i])] \o <<<<"]">>>>

\* A JSON value that is no object: a number, a string, ...
IsScalar(o) == Len(o) = 1 /\ o[1] \notin {"[", "]", "{", "}"}

IsValue(o) == IsObject(o) \/ IsScalar(o)

\* What json.load makes of one element: a dict, or the scalar itself.
DecodeValue(o) == IF IsObject(o) THEN DecodePost(o) ELSE [scalar |-> o[1]]

\* Whether json.load accepts the data (otherwise JSONDecodeError).
JsonValid(data) ==
    /\ Len(data) >= 2
    /\ data[1] = <<"[">>
    /\ data[Len(data)] = <<"]">>
    /\ \A i \in 2..(Len(data) - 1) : IsValue(data[i])

JsonLoad(data) == [i \in 1..(Len(data) - 2) |-> DecodeValue(data[i + 1])]

\* What an interrupted json.dump leaves in the file: nothing while the output is
\* still in the writer's buffer, or the document cut short.
Partial(data) == {SubSeq(data, 1, n) : n \in {0, Len(data) - 1}}

load_posts(f) ==
    IF f.exists
    THEN IF JsonValid(f.data) THEN JsonLoad(f.data) ELSE <<>>
    ELSE <<>>

\* max(S, default=default)
MaxOf(S, default) ==
    IF S = {} THEN default ELSE CHOOSE y \in S : \A z \in S : z <= y

\* p["id"] raises for an element that is no dict with an id (TypeError, KeyError).
IdRaises(ps) == \E i \in 1..Len(ps) : "id" \notin DOMAIN ps[i]

\* The counter started at 1 whatever was loaded.
InitialNextIdOne(ps) == 1

\* max([p["id"] for p in posts], default=0) + 1
InitialNextId(ps) == MaxOf({ps[i].id : i \in 1..Len(ps)}, 0) + 1

\* -------------------------------------------------------------------- state
VARIABLES
    posts,          \* the in-memory collection, in creation order
    next_id,        \* the id counter
    ip_timestamps,  \* identity -> deque of submission times; the keys are the tracked identities
    ADMIN_KEY,      \* the configured secret
    clock,          \* time.time(), in seconds
    file,           \* posts.json
    tmp,            \* posts.json.tmp
    th,             \* worker threads: position in the handler and its locals
    snap,           \* history: the shared state when each thread's request began
    log,            \* history: every submission that passed admission, in order
    denied,         \* history: identities answered 429 in the current run
    crash,          \* history: the step the last restart interrupted, until the next request
    created,        \* history: posts appended, over the lifetime of the store
    ticks,          \* history: clock ticks
    run,            \* history: restarts so far
    runStart,       \* history: length of log when the current run began
    failures,       \* history: failed writes
    deletes         \* history: deletions begun on an existing post

vars ==
    <<posts, next_id, ip_timestamps, ADMIN_KEY, clock, file, tmp, th, snap, log,
      denied, crash, created, ticks, run, runStart, failures, deletes>>

Threads == 1..NThreads

IdleThread ==
    [pc |-> "idle", op |-> "none", ip |-> "", title |-> <<>>, name |-> <<>>,
     content |-> <<>>, now |-> 0, post |-> <<>>, nid |-> 0, post_id |-> 0,
     key |-> [present |-> FALSE, val |-> ""], victim |-> <<>>, fd |-> "none",
     status |-> 0, err |-> "", logIx |-> 0]

\* A worker of a process that is not running: not yet started ("boot"), or
\* stopped by an exception at the module level ("crashed").
NotStarted == [IdleThread EXCEPT !.pc = "boot"]
Down(err) == [IdleThread EXCEPT !.pc = "crashed", !.err = err]

TakeSnap ==
    [posts |-> posts, next_id |-> next_id, ip_timestamps |-> ip_timestamps,
     file |-> file, before |-> Absent, log |-> Len(log)]

NoCrash == "none"

\* The deque of an identity (defaultdict: an untracked identity has an empty one).
Deque(table, ip) == IF ip \in DOMAIN table THEN table[ip] ELSE <<>>
SetDeque(table, ip, dq) ==
    [k \in (DOMAIN table) \cup {ip} |-> IF k = ip THEN dq ELSE table[k]]
NoTable == [k \in {} |-> <<>>]

NoSnap == [posts |-> <<>>, next_id |-> 0, ip_timestamps |-> NoTable, file |-> Absent,
           before |-> Absent, log |-> 0]

\* Module level of app.py: posts = load_posts(); next_id = max(ids, default 0) + 1;
\* ip_timestamps = defaultdict(...); ADMIN_KEY = os.getenv("ADMIN_KEY", default).
\* An exception at line 28 leaves the module level: the process does not start.
Startup(f, env) ==
    /\ IF IdRaises(load_posts(f))
       THEN /\ posts' = <<>>
            /\ next_id' = 0
            /\ th' = [t \in Threads |-> Down("TypeError")]
       ELSE /\ posts' = load_posts(f)
            /\ next_id' = InitialNextId(load_posts(f))
            /\ th' = [t \in Threads |-> IdleThread]
    /\ ip_timestamps' = NoTable
    /\ ADMIN_KEY' = Get(env, DefaultAdminKey)
    /\ snap' = [t \in Threads |-> NoSnap]

Boot(env) ==
    /\ file = Absent
    /\ tmp = Absent
    /\ posts = load_posts(file)
    /\ next_id = InitialNextId(posts)
    /\ ip_timestamps = NoTable
    /\ ADMIN_KEY = Get(env, DefaultAdminKey)
    /\ clock = 0
    /\ th = [t \in Threads |-> IdleThread]
    /\ snap = [t \in Threads |-> NoSnap]
    /\ log = <<>>
    /\ denied = {}
    /\ crash = NoCrash
    /\ created = 0
    /\ ticks = 0
    /\ run = 0
    /\ runStart = 0
    /\ failures = 0
    /\ deletes = 0

\* A first start with ADMIN_KEY unset, on a machine without posts.json.
Init == Boot([present |-> FALSE, val |-> ""])

\* A first start under any of the environments.
InitEnv == \E env \in AdminKeyEnv : Boot(env)

\* The contents posts.json may have when the process starts: absent, empty, cut
\* short, not JSON, the documents of collections of posts, and JSON lists that
\* hold something other than posts.
DataFiles ==
    { Absent,
      File(<<>>),
      File(<<<<"[">>>>),
      File(<<<<"x">>>>),
      File(<<<<"[">>, <<"]">>>>),
      File(<<<<"[">>, <<"{", 2, <<"H", "i">>, <<"B">>, <<"y", "o">>, <<0, "Z">>, "}">>, <<"]">>>>),
      File(<<<<"[">>, <<"{", 2, <<"H", "i">>, <<"B">>, <<"y", "o">>, <<0, "Z">>, "}">>,
             <<"{", 1, <<"H", "i">>, <<"B">>, <<"y", "o">>, <<0, "Z">>, "}">>, <<"]">>>>),
      File(<<<<"[">>, <<"{", 1, <<"H", "i">>, <<"B">>, <<"y", "o">>, <<0, "Z">>, "}">>>>),
      File(<<<<"[">>, <<"7">>, <<"]">>>>),
      File(<<<<"[">>, <<"{", 1, <<"H", "i">>, <<"B">>, <<"y", "o">>, <<0, "Z">>, "}">>, <<"7">>,
             <<"]">>>>) }

\* A machine with any of these files, before the process is started.
InitLoad ==
    /\ file \in DataFiles
    /\ tmp = Absent
    /\ posts = <<>>
    /\ next_id = 0
    /\ ip_timestamps = NoTable
    /\ ADMIN_KEY = DefaultAdminKey
    /\ clock = 0
    /\ th = [t \in Threads |-> NotStarted]
    /\ snap = [t \in Threads |-> NoSnap]
    /\ log = <<>>
    /\ denied = {}
    /\ crash = NoCrash
    /\ created = 0
    /\ ticks = 0
    /\ run = 0
    /\ runStart = 0
    /\ failures = 0
    /\ deletes = 0

\* The first body of a valid submission, as create_post stores it.
SeedPost(i) ==
    [id |-> i, title |-> <<"H", "i">>, name |-> Anonymous, content |-> <<"y", "o">>,
     created_at |-> IsoZ(0)]

\* The state after k accepted submissions of one identity at time 0, each run to
\* its end before the next: k posts, persisted, and k recorded timestamps.
Seeded(k) ==
    /\ posts = [i \in 1..k |-> SeedPost(i)]
    /\ next_id = k + 1
    /\ ip_timestamps = [ip \in {"10.0.0.1"} |-> [i \in 1..k |-> 0]]
    /\ ADMIN_KEY = DefaultAdminKey
    /\ clock = 0
    /\ file = File(JsonDump(posts))
    /\ tmp = Absent
    /\ th = [t \in Threads |-> IdleThread]
    /\ snap = [t \in Threads |-> NoSnap]
    /\ log = [i \in 1..k |-> [ip |-> "10.0.0.1", at |-> 0, id |-> i, ok |-> TRUE]]
    /\ denied = {}
    /\ crash = NoCrash
    /\ created = k
    /\ ticks = 0
    /\ run = 0
    /\ runStart = 0
    /\ failures = 0
    /\ deletes = 0

\* An identity with one slot of its quota left.
InitConc == Seeded(RATE_LIMIT_COUNT - 1)

\* ------------------------------------------------------------------ helpers
Set(t, r) == [th EXCEPT ![t] = r]

\* The handler returns: the response status and, for an exception, its name.
Respond(t, r, status, err) ==
    Set(t, [r EXCEPT !.pc = "done", !.status = status, !.err = err, !.fd = "none"])

Counters == <<created, ticks, run, runStart, failures, deletes>>
History == <<log, denied, crash, Counters>>
Store == <<posts, next_id>>
Disk == <<file, tmp>>

\* A write of `data` at offset 0 of a file that holds `old`: bytes beyond the
\* written ones stay.
Overwrite(old, data) ==
    IF Len(old) > Len(data) THEN data \o SubSeq(old, Len(data) + 1, Len(old)) ELSE data

\* The head removed, whatever was asked for.
RemoveHead(s, x) == Tail(s)

\* list.remove(x): the list without its first element equal to x.
RECURSIVE RemoveFirst(_, _)
RemoveFirst(s, x) ==
    IF s = <<>> THEN <<>>
    ELSE IF Head(s) = x THEN Tail(s)
    ELSE <<Head(s)>> \o RemoveFirst(Tail(s), x)

Reverse(s) == [i \in 1..Len(s) |-> s[Len(s) + 1 - i]]

\* GET /api/posts: jsonify(list(reversed(posts)))
list_posts == Reverse(posts)

\* ----------------------------------------------------------- POST /api/posts
\* The identity's deque looked up before the body is screened: the lookup in the
\* defaultdict starts tracking the identity.
CreateStartTrackingFirst(t, body, origin) ==
    LET title == sanitize_text(Get(body.title, <<>>))
        stripped == sanitize_text(Get(body.name, <<>>))
        name == IF stripped = <<>> THEN Anonymous ELSE stripped
        content == sanitize_text(Get(body.content, <<>>))
        ip == ClientIp(origin)
        r == [th[t] EXCEPT !.op = "create", !.title = title, !.name = name,
                           !.content = content]
    IN  /\ th[t].pc = "idle"
        /\ snap' = [snap EXCEPT ![t] = TakeSnap]
        /\ ip_timestamps' = SetDeque(ip_timestamps, ip, Deque(ip_timestamps, ip))
        /\ IF title = <<>> \/ content = <<>>
           THEN th' = Respond(t, r, 400, "")
           ELSE IF is_spam(title, name, content)
           THEN th' = Respond(t, r, 400, "")
           ELSE th' = Set(t, [r EXCEPT !.pc = "check", !.ip = ip])
        /\ crash' = NoCrash
        /\ UNCHANGED <<Store, ADMIN_KEY, clock, Disk, log, denied, Counters>>

\* Lines 89-100: parse, trim, validate and screen the body, read the identity.
CreateStart(t, body, origin) ==
    LET title == sanitize_text(Get(body.title, <<>>))
        stripped == sanitize_text(Get(body.name, <<>>))
        name == IF stripped = <<>> THEN Anonymous ELSE stripped
        content == sanitize_text(Get(body.content, <<>>))
        r == [th[t] EXCEPT !.op = "create", !.title = title, !.name = name,
                           !.content = content]
    IN  /\ th[t].pc = "idle"
        /\ snap' = [snap EXCEPT ![t] = TakeSnap]
        /\ IF title = <<>> \/ content = <<>>
           THEN th' = Respond(t, r, 400, "")
           ELSE IF is_spam(title, name, content)
           THEN th' = Respond(t, r, 400, "")
           ELSE th' = Set(t, [r EXCEPT !.pc = "check", !.ip = ClientIp(origin)])
        /\ crash' = NoCrash
        /\ UNCHANGED <<Store, ip_timestamps, ADMIN_KEY, clock, Disk, log, denied, Counters>>

\* A limiter that never forgets a timestamp.
PruneNothing(dq, now) == dq

\* while dq and dq[0] <= now - RATE_LIMIT_WINDOW: dq.popleft()
RECURSIVE Prune(_, _)
Prune(dq, now) ==
    IF dq # <<>> /\ Head(dq) <= now - RATE_LIMIT_WINDOW
    THEN Prune(Tail(dq), now)
    ELSE dq

\* The comparison off by one: a sixth submission fits.
AdmitsOneMore(dq) == Len(dq) <= RATE_LIMIT_COUNT

\* return len(dq) < RATE_LIMIT_COUNT
Admits(dq) == Len(dq) < RATE_LIMIT_COUNT

\* A limiter that counts every attempt: the rejected ones are recorded too.
CheckRateLimitCountingAttempts(t) ==
    LET r == th[t]
        dq == Prune(Deque(ip_timestamps, r.ip), clock)
    IN  /\ r.pc = "check"
        /\ IF Admits(dq)
           THEN /\ ip_timestamps' = SetDeque(ip_timestamps, r.ip, dq)
                /\ th' = Set(t, [r EXCEPT !.pc = "build", !.now = clock])
                /\ denied' = denied
           ELSE /\ ip_timestamps' = SetDeque(ip_timestamps, r.ip, Append(dq, clock))
                /\ th' = Respond(t, [r EXCEPT !.now = clock], 429, "")
                /\ denied' = denied \cup {r.ip}
        /\ UNCHANGED <<Store, ADMIN_KEY, clock, Disk, snap, log, crash, Counters>>

\* Lines 102-103 with check_rate_limit (45-50).
CheckRateLimit(t) ==
    LET r == th[t]
        dq == Prune(Deque(ip_timestamps, r.ip), clock)
    IN  /\ r.pc = "check"
        /\ ip_timestamps' = SetDeque(ip_timestamps, r.ip, dq)
        /\ IF Admits(dq)
           THEN /\ th' = Set(t, [r EXCEPT !.pc = "build", !.now = clock])
                /\ denied' = denied
           ELSE /\ th' = Respond(t, [r EXCEPT !.now = clock], 429, "")
                /\ denied' = denied \cup {r.ip}
        /\ UNCHANGED <<Store, ADMIN_KEY, clock, Disk, snap, log, crash, Counters>>

\* The id taken from the size of the collection instead of the counter.
NewPostCountingPosts(r) ==
    [id |-> Len(posts) + 1, title |-> r.title, name |-> r.name, content |-> r.content,
     created_at |-> IsoZ(clock)]

\* Lines 105-112: the post, with the id read from next_id.
NewPost(r) ==
    [id |-> next_id, title |-> r.title, name |-> r.name, content |-> r.content,
     created_at |-> IsoZ(clock)]

BuildPost(t) ==
    /\ th[t].pc = "build"
    /\ th' = Set(t, [th[t] EXCEPT !.pc = "append", !.post = <<NewPost(th[t])>>])
    /\ UNCHANGED <<Store, ip_timestamps, ADMIN_KEY, clock, Disk, snap, History>>

\* Line 114: posts.append(post)
AppendPost(t) ==
    /\ th[t].pc = "append"
    /\ posts' = Append(posts, th[t].post[1])
    /\ created' = created + 1
    /\ th' = Set(t, [th[t] EXCEPT !.pc = "incr_load"])
    /\ UNCHANGED <<next_id, ip_timestamps, ADMIN_KEY, clock, Disk, snap, log, denied, crash,
                   ticks, run, runStart, failures, deletes>>

\* Line 115, next_id += 1: the load of the global ...
IncrLoad(t) ==
    /\ th[t].pc = "incr_load"
    /\ th' = Set(t, [th[t] EXCEPT !.pc = "incr_store", !.nid = next_id])
    /\ UNCHANGED <<Store, ip_timestamps, ADMIN_KEY, clock, Disk, snap, History>>

\* ... and the store of the sum.
IncrStore(t) ==
    /\ th[t].pc = "incr_store"
    /\ next_id' = th[t].nid + 1
    /\ th' = Set(t, [th[t] EXCEPT !.pc = "record"])
    /\ UNCHANGED <<posts, ip_timestamps, ADMIN_KEY, clock, Disk, snap, History>>

\* Line 116 with record_post_ip (52-53): ip_timestamps[ip].append(time.time())
RecordPostIp(t) ==
    LET r == th[t]
    IN  /\ r.pc = "record"
        /\ ip_timestamps' =
               SetDeque(ip_timestamps, r.ip, Append(Deque(ip_timestamps, r.ip), clock))
        /\ log' = Append(log, [ip |-> r.ip, at |-> clock, id |-> r.post[1].id,
                               ok |-> FALSE])
        /\ th' = Set(t, [r EXCEPT !.pc = "save_open", !.logIx = Len(log) + 1])
        /\ UNCHANGED <<Store, ADMIN_KEY, clock, Disk, snap, denied, crash, Counters>>

\* ------------------------------------------------------------------ save_posts
\* The non-atomic variant: posts.json itself is opened for writing.
SaveOpenCanonical(t) ==
    /\ th[t].pc = "save_open"
    /\ file' = File(<<>>)
    /\ th' = Set(t, [th[t] EXCEPT !.pc = "save_write", !.fd = "canon"])
    /\ snap' = [snap EXCEPT ![t].before = file]
    /\ UNCHANGED <<Store, ip_timestamps, ADMIN_KEY, clock, tmp, History>>

\* Line 32: open(tmp_file, "w") creates the file or truncates it.
SaveOpen(t) ==
    /\ th[t].pc = "save_open"
    /\ tmp' = File(<<>>)
    /\ th' = Set(t, [th[t] EXCEPT !.pc = "save_write", !.fd = "tmp"])
    /\ snap' = [snap EXCEPT ![t].before = file]
    /\ UNCHANGED <<Store, ip_timestamps, ADMIN_KEY, clock, file, History>>

\* The file the thread's descriptor writes `data` to: the inode it opened, which
\* a concurrent os.replace may have renamed to posts.json or unlinked.
WriteTo(fd, data) ==
    CASE fd = "tmp" -> /\ tmp' = File(Overwrite(tmp.data, data))
                       /\ file' = file
      [] fd = "canon" -> /\ file' = File(Overwrite(file.data, data))
                         /\ tmp' = tmp
      [] OTHER -> UNCHANGED <<file, tmp>>

\* The collection dumped as it was when the request began.
SaveWriteStale(t) ==
    /\ th[t].pc = "save_write"
    /\ WriteTo(th[t].fd, JsonDump(snap[t].posts))
    /\ th' = Set(t, [th[t] EXCEPT !.pc = "save_replace", !.fd = "none"])
    /\ UNCHANGED <<Store, ip_timestamps, ADMIN_KEY, clock, snap, History>>

\* Lines 33-35 and the end of the with block: dump, flush, fsync, close.
SaveWrite(t) ==
    /\ th[t].pc = "save_write"
    /\ WriteTo(th[t].fd, JsonDump(posts))
    /\ th' = Set(t, [th[t] EXCEPT !.pc = "save_replace", !.fd = "none"])
    /\ UNCHANGED <<Store, ip_timestamps, ADMIN_KEY, clock, snap, History>>

\* What a rename of posts.json.tmp over posts.json does to the descriptors
\* other threads hold.
Renamed(r) ==
    [r EXCEPT !.fd = CASE r.fd = "tmp" -> "canon"
                       [] r.fd = "canon" -> "orphan"
                       [] OTHER -> r.fd]

Success(r) == IF r.op = "create" THEN 201 ELSE 200

\* Line 36: os.replace(tmp_file, POSTS_FILE), then the handler's response.
SaveReplace(t) ==
    LET r == th[t] IN
    /\ r.pc = "save_replace"
    /\ IF tmp.exists
       THEN /\ file' = tmp
            /\ tmp' = Absent
            /\ th' = [u \in Threads |->
                        IF u = t
                        THEN [r EXCEPT !.pc = "done", !.status = Success(r)]
                        ELSE Renamed(th[u])]
            /\ log' = IF r.op = "create"
                      THEN [log EXCEPT ![r.logIx].ok = TRUE]
                      ELSE log
       ELSE /\ th' = Respond(t, r, 500, "FileNotFoundError")
            /\ UNCHANGED <<file, tmp, log>>
    /\ UNCHANGED <<Store, ip_timestamps, ADMIN_KEY, clock, snap, denied, crash, Counters>>

\* The hardened variant: a failed write takes the request's changes of the
\* store back.
SaveFailRollingBack(t) ==
    /\ th[t].pc \in {"save_open", "save_write"}
    /\ failures' = failures + 1
    /\ IF th[t].pc = "save_open"
       THEN UNCHANGED <<file, tmp>>
       ELSE \E part \in Partial(JsonDump(posts)) : WriteTo(th[t].fd, part)
    /\ th' = Respond(t, th[t], 500, "OSError")
    /\ posts' = snap[t].posts
    /\ next_id' = snap[t].next_id
    /\ UNCHANGED <<ip_timestamps, ADMIN_KEY, clock, snap, log, denied, crash,
                   created, ticks, run, runStart, deletes>>

\* The write fails (disk full, ...): open raises, or the dump stops part way;
\* the exception leaves save_posts and the handler answers 500.
SaveFail(t) ==
    /\ th[t].pc \in {"save_open", "save_write"}
    /\ failures' = failures + 1
    /\ IF th[t].pc = "save_open"
       THEN UNCHANGED <<file, tmp>>
       ELSE \E part \in Partial(JsonDump(posts)) : WriteTo(th[t].fd, part)
    /\ th' = Respond(t, th[t], 500, "OSError")
    /\ UNCHANGED <<Store, ip_timestamps, ADMIN_KEY, clock, snap, log, denied, crash,
                   created, ticks, run, runStart, deletes>>

\* ---------------------------------------------------- DELETE /api/posts/<id>
PostIds == 0..MaxPosts

First(S) == CHOOSE i \in S : \A j \in S : i <= j

Targets(ps, post_id) == {i \in 1..Len(ps) : ps[i].id = post_id}

\* key != ADMIN_KEY, where key is None when the header is absent.
KeyDiffers(key, secret) == ~key.present \/ key.val # secret

\* Lines 123-125: the admin gate.
DeleteStart(t, post_id, key) ==
    LET r == [th[t] EXCEPT !.op = "delete", !.post_id = post_id, !.key = key]
        hit == ~KeyDiffers(key, ADMIN_KEY) /\ Targets(posts, post_id) # {}
    IN  /\ th[t].pc = "idle"
        /\ deletes' = IF hit THEN deletes + 1 ELSE deletes
        /\ snap' = [snap EXCEPT ![t] = TakeSnap]
        /\ IF KeyDiffers(key, ADMIN_KEY)
           THEN th' = Respond(t, r, 403, "")
           ELSE th' = Set(t, [r EXCEPT !.pc = "del_scan"])
        /\ crash' = NoCrash
        /\ UNCHANGED <<Store, ip_timestamps, ADMIN_KEY, clock, Disk, log, denied, created,
                       ticks, run, runStart, failures>>

\* Lines 127-129 and 137-138: the scan of list(posts) for the first post with the id.
DeleteScan(t) ==
    LET r == th[t]
        hits == Targets(posts, r.post_id)
    IN  /\ r.pc = "del_scan"
        /\ IF hits = {}
           THEN th' = Respond(t, r, 404, "")
           ELSE th' = Set(t, [r EXCEPT !.pc = "del_remove",
                                       !.victim = <<posts[First(hits)]>>])
        /\ UNCHANGED <<Store, ip_timestamps, ADMIN_KEY, clock, Disk, snap, History>>

\* Lines 130-132: posts.remove(p), a ValueError when p is no longer in the list.
DeleteRemove(t) ==
    LET r == th[t]
        p == r.victim[1]
    IN  /\ r.pc = "del_remove"
        /\ IF \E i \in 1..Len(posts) : posts[i] = p
           THEN /\ posts' = RemoveFirst(posts, p)
                /\ th' = Set(t, [r EXCEPT !.pc = "save_open"])
           ELSE /\ posts' = posts
                /\ th' = Respond(t, r, 500, "ValueError")
        /\ UNCHANGED <<next_id, ip_timestamps, ADMIN_KEY, clock, Disk, snap, History>>

\* The response is sent and the worker is free again.
Return(t) ==
    /\ th[t].pc = "done"
    /\ th' = Set(t, IdleThread)
    /\ snap' = [snap EXCEPT ![t] = NoSnap]
    /\ UNCHANGED <<Store, ip_timestamps, ADMIN_KEY, clock, Disk, History>>

\* ------------------------------------------------------------- environment
\* The process is started: the module level of app.py runs on posts.json as it is.
Start ==
    /\ th[1].pc = "boot"
    /\ Startup(file, [present |-> FALSE, val |-> ""])
    /\ UNCHANGED <<clock, Disk, History>>

\* time.time() advances.
Tick ==
    /\ ticks' = ticks + 1
    /\ clock' = clock + TickSeconds
    /\ UNCHANGED <<Store, ip_timestamps, ADMIN_KEY, Disk, th, snap, log, denied, crash,
                   created, run, runStart, failures, deletes>>

SavePcs == {"save_open", "save_write", "save_replace"}

\* Where the process was when it stopped.
Interrupted(t) == th[t].pc

\* The process stops at any point (between requests or inside one) and is started
\* again: lines 27-28 and 43 run on the files as they are.
Restart ==
    /\ run' = run + 1
    /\ runStart' = Len(log)
    /\ crash' = Interrupted(1)
    /\ denied' = {}
    /\ Startup(file, [present |-> TRUE, val |-> ADMIN_KEY])
    /\ UNCHANGED <<clock, Disk, log, created, ticks, failures, deletes>>

\* The process stops while a thread is inside json.dump: the part written so far
\* stays in the file the descriptor refers to.
CrashInWrite(t) ==
    /\ th[t].pc = "save_write"
    /\ run' = run + 1
    /\ runStart' = Len(log)
    /\ crash' = Interrupted(t)
    /\ \E part \in Partial(JsonDump(posts)) : WriteTo(th[t].fd, part)
    /\ denied' = {}
    /\ \E f \in {file'} : Startup(f, [present |-> TRUE, val |-> ADMIN_KEY])
    /\ UNCHANGED <<clock, log, created, ticks, failures, deletes>>

\* ------------------------------------------------------------ specifications
\* The steps inside a POST /api/posts.
CreateSteps(t) ==
    \/ CheckRateLimit(t)
    \/ BuildPost(t)
    \/ AppendPost(t)
    \/ IncrLoad(t)
    \/ IncrStore(t)
    \/ RecordPostIp(t)

\* The steps inside save_posts.
SaveSteps(t) ==
    \/ SaveOpen(t)
    \/ SaveWrite(t)
    \/ SaveReplace(t)

\* The steps inside a DELETE.
DeleteSteps(t) ==
    \/ DeleteScan(t)
    \/ DeleteRemove(t)

Hits(post_id, key) == ~KeyDiffers(key, ADMIN_KEY) /\ Targets(posts, post_id) # {}

\* Sequential execution of the whole API: one worker, one request at a time,
\* with write failures, crashes and restarts.
Next ==
    \/ /\ created < MaxPosts
       /\ \E body \in Bodies, origin \in Origins : CreateStart(1, body, origin)
    \/ CreateSteps(1)
    \/ SaveSteps(1)
    \/ \E post_id \in PostIds, key \in KeyHeaders :
          /\ Hits(post_id, key) => deletes < MaxDeletes
          /\ DeleteStart(1, post_id, key)
    \/ DeleteSteps(1)
    \/ Return(1)
    \/ failures < MaxFailures /\ SaveFail(1)
    \/ ticks < MaxTicks /\ Tick
    \/ run < MaxRestarts /\ Restart
    \/ run < MaxRestarts /\ CrashInWrite(1)

Spec == Init /\ [][Next]_vars

\* Sequential execution of the submission pipeline alone, long enough to fill
\* and outlive a rate-limit window. A request is short against a tick of the
\* clock: time passes, and the process restarts, between requests.
NextRate ==
    \/ /\ created < RATE_LIMIT_COUNT + MaxExtra
       /\ \E body \in Bodies, origin \in Origins : CreateStart(1, body, origin)
    \/ CreateSteps(1)
    \/ SaveSteps(1)
    \/ Return(1)
    \/ ticks < MaxRateTicks /\ th[1].pc = "idle" /\ Tick
    \/ run < MaxRestarts /\ th[1].pc = "idle" /\ Restart

SpecRate == Init /\ [][NextRate]_vars

\* The admin gate under every environment: submissions and deletions, no faults.
NextAdmin ==
    \/ /\ created < MaxPosts
       /\ \E body \in Bodies, origin \in Origins : CreateStart(1, body, origin)
    \/ CreateSteps(1)
    \/ SaveSteps(1)
    \/ \E post_id \in PostIds, key \in KeyHeaders :
          /\ Hits(post_id, key) => deletes < MaxDeletes
          /\ DeleteStart(1, post_id, key)
    \/ DeleteSteps(1)
    \/ Return(1)

SpecAdmin == InitEnv /\ [][NextAdmin]_vars

\* Concurrent submissions: the workers' steps interleave.
NextConc ==
    \E t \in Threads :
        \/ /\ created < RATE_LIMIT_COUNT + MaxExtra
           /\ \E body \in Bodies, origin \in Origins : CreateStart(t, body, origin)
        \/ CreateSteps(t)
        \/ SaveSteps(t)
        \/ Return(t)

SpecConc == InitConc /\ [][NextConc]_vars

\* Sequential submissions with every kind of body: the screening of lines 89-98.
NextScreen ==
    \/ /\ created < MaxScreenPosts
       /\ \E body \in ScreenBodies, origin \in Origins : CreateStart(1, body, origin)
    \/ CreateSteps(1)
    \/ SaveSteps(1)
    \/ Return(1)

SpecScreen == Init /\ [][NextScreen]_vars

\* The start of the process on any data file, and submissions after it.
NextLoad ==
    \/ Start
    \/ /\ created < MaxLoadPosts
       /\ \E body \in Bodies, origin \in Origins : CreateStart(1, body, origin)
    \/ CreateSteps(1)
    \/ SaveSteps(1)
    \/ Return(1)

SpecLoad == InitLoad /\ [][NextLoad]_vars

\* ------------------------------------------------------------------- claims
\* The submissions answered 201, in order.
Accepted == SelectSeq(log, LAMBDA e : e.ok)

Ids(ps) == {ps[i].id : i \in 1..Len(ps)}

\* C1: within one process run that started from an empty store, with requests
\* one after another and no failed write, the Nth accepted create_post returns
\* id N, whatever was deleted in between.
C1_NthAcceptedGetsIdN ==
    (run = 0 /\ failures = 0) =>
        /\ \A n \in 1..Len(Accepted) : Accepted[n].id = n
        /\ (th[1].pc = "done" /\ th[1].status = 201) =>
               th[1].post[1].id = Len(Accepted)

\* C1's case: post 2 was deleted while it held the highest id, and the next
\* accepted post got id 3.
C1_Witness ==
    /\ run = 0 /\ failures = 0
    /\ th[1].pc = "done" /\ th[1].status = 201
    /\ th[1].post[1].id = 3
    /\ Ids(snap[1].posts) = {1}
    /\ Len(Accepted) = 3

\* C2: over the whole lifetime of the store, restarts included, every accepted
\* post has an id greater than that of every post accepted before it.
C2_IdsNeverReusedAcrossRestarts ==
    \A i \in 1..Len(Accepted) : \A j \in 1..Len(Accepted) :
        i < j => Accepted[i].id < Accepted[j].id

\* ---- the rate limiter
\* The entries of the current run, and of the whole execution.
RunIx == (runStart + 1)..Len(log)
AllIx == 1..Len(log)

\* Thread t's submission has been through check_rate_limit.
Checked(t) == th[t].op = "create" /\ th[t].ip # "" /\ th[t].pc # "check"

\* The earlier submissions of t's identity, among ix, whose recorded time lay
\* inside the window that ended when t's submission was checked.
Prior(ix, t, okOnly) ==
    {i \in ix \ {th[t].logIx} :
        /\ log[i].ip = th[t].ip
        /\ log[i].at > th[t].now - RATE_LIMIT_WINDOW
        /\ okOnly => log[i].ok}

\* The accepted submissions of entry i's identity, among ix, inside the window
\* that ends with entry i.
SameWindow(ix, i) ==
    {j \in ix :
        /\ log[j].ok
        /\ log[j].ip = log[i].ip
        /\ log[j].at > log[i].at - RATE_LIMIT_WINDOW
        /\ log[j].at <= log[i].at}

\* The quota, counted over the entries ix: a submission with fewer than
\* RATE_LIMIT_COUNT earlier ones of its identity in the window passes admission
\* (and is answered 201 unless its write fails); one with RATE_LIMIT_COUNT
\* accepted ones in the window is answered 429; no window holds more than
\* RATE_LIMIT_COUNT accepted submissions of one identity.
Quota(ix) ==
    /\ (Checked(1) /\ Cardinality(Prior(ix, 1, FALSE)) < RATE_LIMIT_COUNT) =>
           /\ th[1].status # 429
           /\ th[1].pc = "done" => (th[1].status = 201 \/ th[1].err = "OSError")
    /\ (Checked(1) /\ Cardinality(Prior(ix, 1, TRUE)) >= RATE_LIMIT_COUNT) =>
           (th[1].pc = "done" /\ th[1].status = 429)
    /\ \A i \in ix : log[i].ok => Cardinality(SameWindow(ix, i)) <= RATE_LIMIT_COUNT

DequeBefore(t) == Deque(snap[t].ip_timestamps, th[t].ip)

\* C4: once the clock is more than RATE_LIMIT_WINDOW past the oldest counted
\* submission of an identity, its next valid submission is not answered 429:
\* it passes admission and is answered 201 (unless its write fails).
C4_RecoversAfterWindow ==
    (/\ Checked(1)
     /\ DequeBefore(1) # <<>>
     /\ th[1].now > Head(DequeBefore(1)) + RATE_LIMIT_WINDOW) =>
        /\ th[1].status # 429
        /\ th[1].pc = "done" => (th[1].status = 201 \/ th[1].err = "OSError")

\* C4's case: an identity that was answered 429, its quota still full of
\* timestamps, is accepted again after the window has passed.
C4_Witness ==
    /\ th[1].pc = "done" /\ th[1].status = 201
    /\ th[1].ip \in denied
    /\ Len(DequeBefore(1)) = RATE_LIMIT_COUNT
    /\ th[1].now > Head(DequeBefore(1)) + RATE_LIMIT_WINDOW

\* ---- concurrency
\* C5: however the steps of concurrent submissions interleave, an identity gets
\* no more accepted submissions than it has slots: never more than
\* RATE_LIMIT_COUNT answered 201 at one instant.
C5_ConcurrentQuota ==
    \A i \in AllIx :
        Cardinality({j \in AllIx : log[j].ok /\ log[j].ip = log[i].ip
                                     /\ log[j].at = log[i].at}) <= RATE_LIMIT_COUNT

\* C6: under any interleaving the store never holds two posts with the same id.
C6_DistinctIds ==
    \A i \in 1..Len(posts) : \A j \in 1..Len(posts) :
        i # j => posts[i].id # posts[j].id

\* ---- persistence
Complete(f) == f.exists => (JsonValid(f.data) /\ JsonDump(JsonLoad(f.data)) = f.data)

\* C7: when the process stops inside save_posts, or right after it, posts.json
\* is afterwards the complete document it was before the call or the complete
\* document of the new collection.
C7_CrashInSaveKeepsOldOrNew ==
    [][(run' = run + 1 /\ th[1].pc \in SavePcs) =>
          /\ file' \in {snap[1].file, File(JsonDump(posts))}
          /\ Complete(file')
          /\ posts' = load_posts(file')]_vars

\* C7's case: the process stopped inside json.dump, posts.json.tmp is cut short
\* and posts.json holds the previous collection, which is what was loaded.
C7_Witness ==
    /\ crash = "save_write"
    /\ tmp.exists /\ ~JsonValid(tmp.data) /\ tmp.data # <<>>
    /\ file.exists /\ Complete(file)
    /\ Len(posts) = 2

\* C8: after requests that all succeeded, a restart between requests gives back
\* the collection that was in memory: the same posts in the same order.
C8_RestartRoundTrip ==
    [][(run' = run + 1 /\ th[1].pc = "idle" /\ failures = 0) => posts' = posts]_vars

\* C8's case: a restart between requests, after submissions and a deletion, with
\* posts left to reload.
C8_Witness ==
    /\ crash = "idle" /\ run = 1 /\ failures = 0
    /\ deletes = 1
    /\ Len(posts) = 2

\* ---- deletion
\* s without its element at index i.
Without(s, i) == [j \in 1..(Len(s) - 1) |-> IF j < i THEN s[j] ELSE s[j + 1]]

\* C9: a delete_post that passed the admin gate removes exactly the first post
\* with the id and keeps the others, their order and next_id; with no such
\* post it answers 404 and changes neither the store nor posts.json.
C9_DeleteRemovesExactlyTheTarget ==
    (th[1].pc = "done" /\ th[1].op = "delete" /\ th[1].status # 403) =>
        LET hits == Targets(snap[1].posts, th[1].post_id)
        IN  IF hits = {}
            THEN /\ th[1].status = 404
                 /\ posts = snap[1].posts
                 /\ next_id = snap[1].next_id
                 /\ file = snap[1].file
            ELSE /\ th[1].status = 200 \/ th[1].err = "OSError"
                 /\ Cardinality(hits) = 1
                 /\ posts = Without(snap[1].posts, First(hits))
                 /\ next_id = snap[1].next_id

\* C9's case: the middle one of three posts was deleted.
C9_Witness ==
    /\ th[1].pc = "done" /\ th[1].op = "delete" /\ th[1].status = 200
    /\ Len(snap[1].posts) = 3
    /\ th[1].post_id = 2
    /\ Ids(posts) = {1, 3}

\* C10: a delete_post whose X-Admin-Key differs from the secret, or is empty or
\* absent, is answered 403 and changes nothing.
C10_AdminGateFailsClosed ==
    (/\ th[1].pc = "done" /\ th[1].op = "delete"
     /\ \/ KeyDiffers(th[1].key, ADMIN_KEY)
        \/ ~th[1].key.present
        \/ th[1].key.val = "") =>
        /\ th[1].status = 403
        /\ posts = snap[1].posts
        /\ next_id = snap[1].next_id
        /\ ip_timestamps = snap[1].ip_timestamps
        /\ file = snap[1].file

\* ---- screening
\* Thread t's submission fails the checks of lines 94-98.
Invalid(t) ==
    \/ th[t].title = <<>>
    \/ th[t].content = <<>>
    \/ is_spam(th[t].title, th[t].name, th[t].content)

\* The shared state is what it was when thread t's request began.
Untouched(t) ==
    /\ posts = snap[t].posts
    /\ next_id = snap[t].next_id
    /\ file = snap[t].file
    /\ ip_timestamps = snap[t].ip_timestamps

\* C11: a create_post whose trimmed title or content is empty, or that fails
\* the spam/length checks, is answered 400 and changes neither the posts,
\* next_id, posts.json nor the rate-limit table; a 400 is never answered with
\* anything changed; every stored post has a non-empty title and content and
\* passes the checks.
C11_RejectedSubmissionTouchesNothing ==
    /\ (th[1].op = "create" /\ Invalid(1)) =>
           (th[1].pc = "done" /\ th[1].status = 400 /\ Untouched(1))
    /\ (th[1].pc = "done" /\ th[1].status = 400) => (Invalid(1) /\ Untouched(1))
    /\ \A i \in 1..Len(posts) :
           /\ posts[i].title # <<>>
           /\ posts[i].content # <<>>
           /\ ~is_spam(posts[i].title, posts[i].name, posts[i].content)

\* C11's case: with a post stored and its submitter's timestamp recorded, a
\* submission whose title is too long was answered 400.
C11_Witness ==
    /\ th[1].pc = "done" /\ th[1].status = 400
    /\ Len(th[1].title) > MAX_TITLE_LEN
    /\ Len(posts) = 1
    /\ DOMAIN ip_timestamps # {}

\* The case-folded direct concatenation of the title and the content holds a marker.
MarkerInConcatenation(title, content) ==
    LET folded == Lower(title \o content)
    IN  Contains(folded, ScriptMarker) \/ Contains(folded, JavascriptMarker)

\* C19: a submission with a non-empty trimmed title and content within the
\* length bounds is answered 400 exactly when the case-folded direct
\* concatenation of title and content contains <script or javascript:, a marker
\* split between the end of the title and the start of the content included.
C19_SpamIffMarkerInConcatenation ==
    (/\ th[1].op = "create"
     /\ th[1].title # <<>> /\ th[1].content # <<>>
     /\ Len(th[1].title) <= MAX_TITLE_LEN
     /\ Len(th[1].name) <= MAX_NAME_LEN
     /\ Len(th[1].content) <= MAX_CONTENT_LEN) =>
        ((th[1].pc = "done" /\ th[1].status = 400)
            <=> MarkerInConcatenation(th[1].title, th[1].content))

\* ---- listing
\* C12: after any sequence of submissions, deletions, failed writes and
\* restarts on a store that started empty, list_posts returns the posts in
\* strictly decreasing id order.
C12_ListStrictlyDecreasing ==
    \A i \in 1..(Len(list_posts) - 1) : list_posts[i].id > list_posts[i + 1].id

\* C12's case: between requests, after a deletion and a restart that made the
\* counter hand out an id a second time, the listing holds two posts.
C12_Witness ==
    /\ th[1].pc = "idle"
    /\ run = 1 /\ deletes = 1
    /\ \E i \in 1..Len(Accepted) : \E j \in 1..Len(Accepted) :
          i < j /\ Accepted[i].id = Accepted[j].id
    /\ Len(list_posts) = 2
    /\ list_posts[1].id = 2

\* ---- the order of the pipeline
\* The deque of t's identity holds nothing of t's own request: it is the deque
\* the request found, pruned by its check.
NothingRecorded(t) ==
    Deque(ip_timestamps, th[t].ip) = Prune(DequeBefore(t), th[t].now)

\* C13: a submission's timestamp is recorded only after its persist has
\* completed: none is recorded while save_posts is still to run or running, and
\* a create_post whose persist failed has recorded none.
C13_RecordAfterPersist ==
    /\ (th[1].op = "create" /\ th[1].pc \in SavePcs) => NothingRecorded(1)
    /\ (th[1].op = "create" /\ th[1].pc = "done" /\ th[1].err = "OSError") =>
           NothingRecorded(1)

\* ---- failed writes
\* Thread t's create_post ended in a failed save_posts.
FailedCreate(t) == th[t].op = "create" /\ th[t].pc = "done" /\ th[t].err = "OSError"

\* C14: when save_posts fails during a create_post the append is not rolled
\* back: the new post is the last of posts and the first of list_posts and
\* next_id stays advanced, while posts.json is still the complete document it
\* was before the request; a restart at that point loads a collection without
\* the post.
C14_FailedSaveKeepsAppend ==
    [][FailedCreate(1) =>
          /\ posts = Append(snap[1].posts, th[1].post[1])
          /\ list_posts[1] = th[1].post[1]
          /\ next_id = snap[1].next_id + 1
          /\ file = snap[1].file
          /\ Complete(file)
          /\ (run' = run + 1) =>
                 /\ posts' = load_posts(snap[1].file)
                 /\ \A i \in 1..Len(posts') : posts'[i] # th[1].post[1]]_vars

\* C14's case: the write of the second post failed part way; the post is in
\* memory and posts.json holds the first post alone.
C14_Witness ==
    /\ FailedCreate(1)
    /\ Len(posts) = 2
    /\ tmp.exists /\ tmp.data # <<>>
    /\ file = File(JsonDump(SubSeq(posts, 1, 1)))

\* ---- the frame of a rejection
\* C15: with one request at a time, a create_post answered 429 changes nothing:
\* posts, next_id, posts.json and posts.json.tmp, and the rate-limit table (its
\* tracked identities and every deque, the rejected submitter's included) are
\* what they were when the request began.
C15_RateLimitedChangesNothing ==
    (th[1].pc = "done" /\ th[1].status = 429) =>
        /\ Untouched(1)
        /\ DOMAIN ip_timestamps = DOMAIN snap[1].ip_timestamps
        /\ tmp = Absent

\* C15's case: a rejection at a time when the submitter's deque holds
\* timestamps of two different instants, the oldest still inside the window.
C15_Witness ==
    /\ th[1].pc = "done" /\ th[1].status = 429
    /\ th[1].now > 0
    /\ Head(DequeBefore(1)) = 0
    /\ DequeBefore(1)[RATE_LIMIT_COUNT] = th[1].now

\* ---- the edge of the window
\* C16: a timestamp exactly RATE_LIMIT_WINDOW old is kept by the pruning and
\* still counts: a submission checked when the identity has RATE_LIMIT_COUNT
\* recorded timestamps, the oldest exactly one window old, is answered 429 and
\* the deque keeps all of them.
C16_ExactlyWindowOldStillCounts ==
    (/\ Checked(1)
     /\ Len(DequeBefore(1)) = RATE_LIMIT_COUNT
     /\ Head(DequeBefore(1)) = th[1].now - RATE_LIMIT_WINDOW) =>
        /\ th[1].pc = "done" /\ th[1].status = 429
        /\ Deque(ip_timestamps, th[1].ip) = DequeBefore(1)

\* ---- concurrent writers
\* C17: under concurrent requests that each persist, the executions of
\* save_posts do not disturb one another: posts.json is at every moment a
\* complete collection, never a document cut short by another writer's
\* truncation of posts.json.tmp, and no save_posts fails because another one
\* renamed the temporary file away.
C17_SavesSerialized ==
    /\ Complete(file)
    /\ \A t \in Threads : th[t].err # "FileNotFoundError"

\* ---- memory and disk
\* C20: with one request at a time, between requests and with no failed write
\* so far, posts.json (once written) is the document of the in-memory
\* collection, and while it was never written the collection is empty; a
\* request answered 201 or 200 has written the full updated collection before
\* it responds; a request answered 400, 403, 404 or 429 has not written
\* posts.json.
C20_DiskEqualsMemoryBetweenRequests ==
    /\ (th[1].pc = "idle" /\ failures = 0) =>
           IF file.exists THEN file = File(JsonDump(posts)) ELSE posts = <<>>
    /\ (th[1].pc = "done" /\ th[1].status \in {200, 201}) =>
           file = File(JsonDump(posts))
    /\ (th[1].pc = "done" /\ th[1].status \in {400, 403, 404, 429}) =>
           file = snap[1].file

\* C20's case: between requests, after three submissions and a deletion were
\* persisted without a failure, two posts are in memory and on disk.
C20_Witness ==
    /\ th[1].pc = "idle" /\ failures = 0 /\ run = 0
    /\ created = 3 /\ deletes = 1
    /\ Len(posts) = 2
    /\ file = File(JsonDump(posts))

\* ---- start-up
\* posts.json holds a well-formed collection of posts, and the collection.
WellFormed(f) ==
    /\ f.exists
    /\ Len(f.data) >= 2
    /\ f.data[1] = <<"[">>
    /\ f.data[Len(f.data)] = <<"]">>
    /\ \A i \in 2..(Len(f.data) - 1) : IsObject(f.data[i])
Collection(f) == [i \in 1..(Len(f.data) - 2) |-> DecodePost(f.data[i + 1])]

\* C18: the start of the process never fails on posts.json: absent or not a
\* well-formed collection of posts, the process runs with no posts and
\* next_id = 1; a well-formed collection, it runs with exactly that collection
\* and next_id = max id + 1. (Stated before the first post is created, while
\* posts.json is still as the process found it.)
C18_StartupFailsOpen ==
    (th[1].pc \in {"idle", "crashed"} /\ created = 0) =>
        /\ th[1].pc = "idle"
        /\ IF WellFormed(file)
           THEN /\ posts = Collection(file)
                /\ next_id = MaxOf(Ids(posts), 0) + 1
           ELSE /\ posts = <<>>
                /\ next_id = 1

====
